---- MODULE Spec2Model ----
(***************************************************************************)
(* Model of the access-filtered retrieval core of knowledge_assistant:     *)
(*   - the tag normalizer            (src/src/utils.py, rag_processor.py)  *)
(*   - the filter compiler           (src/src/rag_processor.py)            *)
(*   - path metadata extraction and the sync reconciler                    *)
(*                                   (src/src/document_updater.py)         *)
(* Python strings are sequences of one-character strings, Python lists are *)
(* sequences, Python dicts are sequences of entries in insertion order.    *)
(***************************************************************************)
EXTENDS Integers, Sequences, FiniteSets, Bags, TLC

VARIABLES
    \* ---- tag normalizer (one call, and a second call on its result) ----
    raw_tag,        \* the value handed to sanitize_tag
    nstatus,        \* "idle" | "input" | "normalized" | "twice"
    normalized,     \* sanitize_tag(tag)
    renormalized,   \* sanitize_tag(sanitize_tag(tag))
    \* ---- filter compiler (one retrieval request) ----
    profile,        \* the value handed to get_rag_chain / _build_filter_expression
    fstatus,        \* "request" | "compiled" | "raised" | "queried"
    filter,         \* the compiled Pinecone filter
    retrieved,      \* the chunks of the corpus the filter lets through
    \* ---- document store, index and sync state ----
    store,          \* DOCS_FOLDER: key -> mtime (0 = no such file)
    storeUp,        \* FALSE while DOCS_FOLDER cannot be reached
    index,          \* Milvus collection: bag of entities (the auto_id pk is not kept)
    syncFile,       \* SYNC_STATE_FILE: [kind, state]
    \* ---- one run of synchronize_documents ----
    pc,             \* position of the run
    current_docs_state,
    last_sync_state,
    run,            \* bookkeeping about the run in progress (history only)
    \* ---- a second run of synchronize_documents, started by another trigger ----
    second,         \* [pc, current_docs_state, last_sync_state] of that run
    \* ---- one call of load_and_split_document ----
    doc_path,       \* relative_path, the key of the document
    split_docs_lc,  \* the loader metadata of each chunk the splitter returned
    processed_chunks,   \* the chunk_metadata of each chunk returned
    cstatus         \* "idle" | "loaded" | "split"

fvars == <<profile, fstatus, filter, retrieved>>
svars == <<store, storeUp, index, syncFile, pc, current_docs_state, last_sync_state, run,
           second>>
nvars == <<raw_tag, nstatus, normalized, renormalized>>
cvars == <<doc_path, split_docs_lc, processed_chunks, cstatus>>
vars == <<raw_tag, nstatus, normalized, renormalized, profile, fstatus, filter, retrieved,
          store, storeUp, index, syncFile, pc, current_docs_state, last_sync_state, run,
          second, doc_path, split_docs_lc, processed_chunks, cstatus>>

(***************************************************************************)
(* Bounds                                                                  *)
(***************************************************************************)
MaxLevel == 2
MaxDepts == 2
MaxProjs == 1
MaxContexts == 2
MaxRoles == 1
MaxMtime == 2       \* modification times are 1..MaxMtime
MaxCopies == 2      \* entities stored for one (source, chunk_index) at most
MaxTagLen == 3      \* length of the tags handed to sanitize_tag
MaxSecondRuns == 1      \* second triggers that arrive while a run is in progress
MaxChunks == 2      \* chunks the splitter returns for the document handed to one call

(***************************************************************************)
(* Characters and strings                                                  *)
(***************************************************************************)
LowerChars == <<"a","b","c","d","e","f","g","h","i","j","k","l","m",
                "n","o","p","q","r","s","t","u","v","w","x","y","z">>
UpperChars == <<"A","B","C","D","E","F","G","H","I","J","K","L","M",
                "N","O","P","Q","R","S","T","U","V","W","X","Y","Z">>
DigitChars == {"0","1","2","3","4","5","6","7","8","9"}

Range(s) == {s[i] : i \in DOMAIN s}

LowerSet == Range(LowerChars)
UpperSet == Range(UpperChars)

\* str.upper() / str.lower() on one ASCII character
UpperChar(ch) ==
    IF ch \in LowerSet THEN UpperChars[CHOOSE i \in DOMAIN LowerChars : LowerChars[i] = ch] ELSE ch
LowerChar(ch) ==
    IF ch \in UpperSet THEN LowerChars[CHOOSE i \in DOMAIN UpperChars : UpperChars[i] = ch] ELSE ch

upper(s) == [i \in DOMAIN s |-> UpperChar(s[i])]
lower(s) == [i \in DOMAIN s |-> LowerChar(s[i])]

\* the character class [a-zA-Z0-9]
IsAlnum(ch) == ch \in LowerSet \cup UpperSet \cup DigitChars

\* a value that is not a str (None)
NoneValue == <<"<None>">>
IsStr(v) == v # NoneValue

\* re.sub(r'[^\w]', '', tag): the class \w keeps the underscore
RECURSIVE StripNonWord(_)
StripNonWord(s) ==
    IF s = <<>> THEN <<>>
    ELSE IF IsAlnum(Head(s)) \/ Head(s) = "_" THEN <<Head(s)>> \o StripNonWord(Tail(s))
    ELSE StripNonWord(Tail(s))

\* re.sub(r'[^a-zA-Z0-9]', '', tag)
RECURSIVE StripNonAlnum(_)
StripNonAlnum(s) ==
    IF s = <<>> THEN <<>>
    ELSE IF IsAlnum(Head(s)) THEN <<Head(s)>> \o StripNonAlnum(Tail(s))
    ELSE StripNonAlnum(Tail(s))

\* re.sub(r'[^a-z0-9]', '', tag).upper(): the class without A-Z
RECURSIVE StripNonLowerDigit(_)
StripNonLowerDigit(s) ==
    IF s = <<>> THEN <<>>
    ELSE IF Head(s) \in LowerSet \cup DigitChars
         THEN <<Head(s)>> \o StripNonLowerDigit(Tail(s))
    ELSE StripNonLowerDigit(Tail(s))
sanitize_tag_lower_class(tag) ==
    IF ~IsStr(tag) THEN <<>> ELSE upper(StripNonLowerDigit(tag))

sanitize_tag(tag) ==
    IF ~IsStr(tag) THEN <<>> ELSE upper(StripNonAlnum(tag))

\* uppercase and made only of ASCII letters and digits
IsCanonical(tag) == \A i \in DOMAIN tag : tag[i] \in UpperSet \cup DigitChars

(***************************************************************************)
(* Configuration (src/src/config.py)                                       *)
(***************************************************************************)
GENERAL == <<"G","E","N","E","R","A","L">>
MEMBER == <<"M","E","M","B","E","R">>
DEFAULT_DEPARTMENT_TAG == GENERAL
DEFAULT_PROJECT_TAG == GENERAL
DEFAULT_HIERARCHY_LEVEL == 0
DEFAULT_ROLE_TAG == MEMBER

(***************************************************************************)
(* Tag values used as inputs                                               *)
(***************************************************************************)
IT == <<"I","T">>
it_dotted == <<"i",".","t">>
HR == <<"H","R">>
PA == <<"P","A">>
p_a == <<"p","_","a">>
LEAD == <<"L","E","A","D">>
lead_lower == <<"l","e","a","d">>

DeptInputs == {IT, it_dotted, HR}
ProjInputs == {PA, p_a}
ContextInputs == {GENERAL, IT, it_dotted, HR, PA}
RoleInputs == {LEAD, lead_lower}

\* every list of at most n elements of S
ListsOf(S, n) == UNION {[1..k -> S] : k \in 0..n}

(***************************************************************************)
(* Index entries as the retrieval layer sees them (chunk metadata)         *)
(***************************************************************************)
ChunkDepartments == {GENERAL, IT, HR}
ChunkProjects == {GENERAL, PA}
ChunkRoles == {MEMBER, GENERAL, LEAD}

\* chunks of two named projects: the project tag as the folder spells it (the path
\* heuristics store the folder name) and in canonical form
PROJECT_ALPHA == <<"P","R","O","J","E","C","T","_","A","L","P","H","A">>
PROJECT_BETA == <<"P","R","O","J","E","C","T","_","B","E","T","A">>
PROJECTALPHA == <<"P","R","O","J","E","C","T","A","L","P","H","A">>

ProjectChunks ==
    [department_tag : {GENERAL},
     project_tag : {PROJECT_ALPHA, PROJECTALPHA, PROJECT_BETA},
     hierarchy_level_required : {0},
     role_tag_required : {LEAD}]

Corpus ==
    [department_tag : ChunkDepartments,
     project_tag : ChunkProjects,
     hierarchy_level_required : 0..MaxLevel,
     role_tag_required : ChunkRoles]
    \cup ProjectChunks

(***************************************************************************)
(* Access profiles (UserProfile, src/src/config.py; a dict or None)        *)
(***************************************************************************)
ProfileKeys == {"user_hierarchy_level", "departments", "projects_membership", "contextual_roles"}

\* contextual_roles: a dict, kept as its entries in insertion order (keys are distinct)
ContextEntries == [key : ContextInputs, roles : ListsOf(RoleInputs, MaxRoles)]
ContextDicts ==
    {d \in ListsOf(ContextEntries, MaxContexts) :
        \A i, j \in DOMAIN d : i # j => d[i].key # d[j].key}

NoneProfile ==
    [type |-> "NoneType", keys |-> {}, user_hierarchy_level |-> 0, departments |-> <<>>,
     projects_membership |-> <<>>, contextual_roles |-> <<>>]

\* a dict that holds none of the profile keys
EmptyDictProfile ==
    [type |-> "dict", keys |-> {}, user_hierarchy_level |-> 0, departments |-> <<>>,
     projects_membership |-> <<>>, contextual_roles |-> <<>>]

FullProfiles ==
    [type : {"dict"}, keys : {ProfileKeys},
     user_hierarchy_level : 0..MaxLevel,
     departments : ListsOf(DeptInputs, MaxDepts),
     projects_membership : ListsOf(ProjInputs, MaxProjs),
     contextual_roles : ContextDicts]

\* a member of IT who holds LEAD for a project that is not among the memberships
ProjectLeadProfile ==
    [type |-> "dict", keys |-> ProfileKeys, user_hierarchy_level |-> 1,
     departments |-> <<IT>>, projects_membership |-> <<>>,
     contextual_roles |-> <<[key |-> PROJECT_ALPHA, roles |-> <<LEAD>>]>>]

\* the same with the project among the memberships
ProjectMemberProfile ==
    [ProjectLeadProfile EXCEPT !.projects_membership = <<PROJECT_ALPHA>>]

ProfileInputs ==
    FullProfiles \cup {EmptyDictProfile, NoneProfile, ProjectLeadProfile, ProjectMemberProfile}

\* dict.get(key, default)
Get(d, key, default) == IF key \in d.keys THEN d[key] ELSE default

(***************************************************************************)
(* Filter compiler (RAGService._build_filter_expression)                   *)
(***************************************************************************)
\* {self._sanitize_tag(k): v for k, v in user_contextual_roles.items()} followed by
\* .get(key, []): of the entries whose sanitized key collide, the last one wins
sanitized_get(roles_dict, key) ==
    LET hits == {i \in DOMAIN roles_dict : sanitize_tag(roles_dict[i].key) = key}
    IN IF hits = {} THEN <<>>
       ELSE roles_dict[CHOOSE i \in hits : \A j \in hits : j <= i].roles

\* gather_roles without the final .add(DEFAULT_ROLE_TAG)
gather_roles_no_default(roles_dict, default_tag, memberships_sanitized) ==
    Range(sanitized_get(roles_dict, sanitize_tag(default_tag)))
        \cup UNION {Range(sanitized_get(roles_dict, memberships_sanitized[i])) :
                        i \in DOMAIN memberships_sanitized}

\* gather_roles taking the roles of every context of the dict, member or not
gather_roles_all_contexts(roles_dict, default_tag, memberships_sanitized) ==
    UNION {Range(roles_dict[i].roles) : i \in DOMAIN roles_dict} \cup {DEFAULT_ROLE_TAG}

\* all_dept_roles / all_proj_roles
gather_roles(roles_dict, default_tag, memberships_sanitized) ==
    Range(sanitized_get(roles_dict, sanitize_tag(default_tag)))
        \cup UNION {Range(sanitized_get(roles_dict, memberships_sanitized[i])) :
                        i \in DOMAIN memberships_sanitized}
        \cup {DEFAULT_ROLE_TAG}

\* profile.get(...) on None raises AttributeError: there is no filter then
build_raises(p) == p.type # "dict"

NoFilter ==
    [hierarchy_lte |-> -1, department_in |-> <<>>, dept_role_in |-> {},
     project_in |-> <<>>, proj_role_in |-> {}]

\* final_filter with the hierarchy gate one level too narrow ($lte user_level - 1)
final_filter_strict_level(user_level, user_depts, user_projs, user_contextual_roles) ==
    LET user_depts_sanitized == [i \in DOMAIN user_depts |-> sanitize_tag(user_depts[i])]
        user_projs_sanitized == [i \in DOMAIN user_projs |-> sanitize_tag(user_projs[i])]
    IN [hierarchy_lte |-> user_level - 1,
        department_in |-> user_depts_sanitized \o <<sanitize_tag(DEFAULT_DEPARTMENT_TAG)>>,
        dept_role_in |-> gather_roles(user_contextual_roles, DEFAULT_DEPARTMENT_TAG,
                                      user_depts_sanitized),
        project_in |-> user_projs_sanitized \o <<sanitize_tag(DEFAULT_PROJECT_TAG)>>,
        proj_role_in |-> gather_roles(user_contextual_roles, DEFAULT_PROJECT_TAG,
                                      user_projs_sanitized)]

\* lines 240-285: sanitize the memberships, gather the roles, assemble
\* final_filter: {"$and": [hierarchy_filter, {"$or": [{"$and": [department_tag $in,
\* role_tag_required $in]}, {"$and": [project_tag $in, role_tag_required $in]}]}]}
final_filter(user_level, user_depts, user_projs, user_contextual_roles) ==
    LET user_depts_sanitized == [i \in DOMAIN user_depts |-> sanitize_tag(user_depts[i])]
        user_projs_sanitized == [i \in DOMAIN user_projs |-> sanitize_tag(user_projs[i])]
    IN [hierarchy_lte |-> user_level,
        department_in |-> user_depts_sanitized \o <<sanitize_tag(DEFAULT_DEPARTMENT_TAG)>>,
        dept_role_in |-> gather_roles(user_contextual_roles, DEFAULT_DEPARTMENT_TAG,
                                      user_depts_sanitized),
        project_in |-> user_projs_sanitized \o <<sanitize_tag(DEFAULT_PROJECT_TAG)>>,
        proj_role_in |-> gather_roles(user_contextual_roles, DEFAULT_PROJECT_TAG,
                                      user_projs_sanitized)]

\* the compiler with the hierarchy gate one level too wide ($lte user_level + 1)
build_filter_expression_wide_gate(p) ==
    final_filter(Get(p, "user_hierarchy_level", -1) + 1,
                 Get(p, "departments", <<>>),
                 Get(p, "projects_membership", <<>>),
                 Get(p, "contextual_roles", <<>>))

\* lines 235-238: the four profile.get(...) with their defaults
build_filter_expression(p) ==
    final_filter(Get(p, "user_hierarchy_level", -1),
                 Get(p, "departments", <<>>),
                 Get(p, "projects_membership", <<>>),
                 Get(p, "contextual_roles", <<>>))

\* the index evaluating the filter on one entry's metadata ($and, $or, $in, $lte)
filter_matches(f, c) ==
    /\ c.hierarchy_level_required <= f.hierarchy_lte
    /\ \/ /\ c.department_tag \in Range(f.department_in)
          /\ c.role_tag_required \in f.dept_role_in
       \/ /\ c.project_tag \in Range(f.project_in)
          /\ c.role_tag_required \in f.proj_role_in

(***************************************************************************)
(* One retrieval request: get_rag_chain compiles the filter, the retriever *)
(* then runs it against the corpus.                                        *)
(***************************************************************************)
FilterInit ==
    /\ profile \in ProfileInputs
    /\ fstatus = "request"
    /\ filter = NoFilter
    /\ retrieved = {}

\* get_rag_chain -> self._build_filter_expression(user_profile) returns
Compile ==
    /\ fstatus = "request"
    /\ ~build_raises(profile)
    /\ filter' = build_filter_expression(profile)
    /\ fstatus' = "compiled"
    /\ UNCHANGED <<profile, retrieved>>
    /\ UNCHANGED svars
    /\ UNCHANGED nvars
    /\ UNCHANGED cvars

\* get_rag_chain -> self._build_filter_expression(user_profile) raises
CompileRaises ==
    /\ fstatus = "request"
    /\ build_raises(profile)
    /\ fstatus' = "raised"
    /\ UNCHANGED <<profile, filter, retrieved>>
    /\ UNCHANGED svars
    /\ UNCHANGED nvars
    /\ UNCHANGED cvars

\* base_retriever: the vector store applies the filter
Query ==
    /\ fstatus = "compiled"
    /\ retrieved' = {c \in Corpus : filter_matches(filter, c)}
    /\ fstatus' = "queried"
    /\ UNCHANGED <<profile, filter>>
    /\ UNCHANGED svars
    /\ UNCHANGED nvars
    /\ UNCHANGED cvars

(***************************************************************************)
(* Path conventions (src/src/config.py)                                    *)
(***************************************************************************)
FINANCE == <<"F","I","N","A","N","C","E">>
LEGAL == <<"L","E","G","A","L">>
MARKETING == <<"M","A","R","K","E","T","I","N","G">>
OPERATIONS == <<"O","P","E","R","A","T","I","O","N","S">>
SALES == <<"S","A","L","E","S">>
KNOWN_DEPARTMENT_TAGS == <<HR, IT, FINANCE, LEGAL, MARKETING, OPERATIONS, SALES>>

ROLE_SPECIFIC_FOLDER_TAGS ==
    << [key |-> <<"l","e","a","d","_","d","o","c","s">>, value |-> LEAD],
       [key |-> <<"a","d","m","i","n","_","f","i","l","e","s">>,
        value |-> <<"A","D","M","I","N">>],
       [key |-> <<"m","a","n","a","g","e","r","_","e","x","c","l","u","s","i","v","e">>,
        value |-> <<"M","A","N","A","G","E","R">>],
       [key |-> <<"t","e","a","m","_","l","e","a","d","_","p","r","i","v","a","t","e">>,
        value |-> <<"T","E","A","M","_","L","E","A","D">>] >>

HIERARCHY_LEVELS_CONFIG ==
    << [key |-> <<"S","T","A","F","F">>, level |-> 0],
       [key |-> MEMBER, level |-> 0],
       [key |-> <<"M","A","N","A","G","E","R">>, level |-> 1],
       [key |-> <<"S","E","N","I","O","R","_","M","A","N","A","G","E","R">>, level |-> 1],
       [key |-> <<"E","X","E","C","U","T","I","V","E">>, level |-> 2],
       [key |-> <<"D","I","R","E","C","T","O","R">>, level |-> 2],
       [key |-> <<"B","O","A","R","D">>, level |-> 3],
       [key |-> <<"C","_","L","E","V","E","L">>, level |-> 3] >>

\* folder names never taken as a project (document_updater.py line 110)
GenericFolders ==
    { <<"d","o","c","s">>, <<"f","i","l","e","s">>, <<"g","e","n","e","r","a","l">>,
      <<"c","o","n","f","i","d","e","n","t","i","a","l">>, <<"p","r","i","v","a","t","e">>,
      <<"s","h","a","r","e","d">> }

(***************************************************************************)
(* Path metadata (src/src/document_updater.py)                             *)
(***************************************************************************)
\* Python's  sub in s  on strings
Contains(sub, s) ==
    \E i \in 1..(Len(s) - Len(sub) + 1) : SubSeq(s, i, i + Len(sub) - 1) = sub

\* str(level) for the levels of HIERARCHY_LEVELS_CONFIG
DigitStr(n) == <<(<<"0","1","2","3">>)[n + 1]>>

NoLevel == -1

\* the entries of HIERARCHY_LEVELS_CONFIG whose key and "_<level>_" both occur
hierarchy_hits(segment_upper) ==
    {i \in DOMAIN HIERARCHY_LEVELS_CONFIG :
        /\ Contains(upper(HIERARCHY_LEVELS_CONFIG[i].key), segment_upper)
        /\ Contains(<<"_">> \o DigitStr(HIERARCHY_LEVELS_CONFIG[i].level) \o <<"_">>,
                    segment_upper)}

\* the level of the first of them in the order of the dict
first_level(hits) ==
    IF hits = {} THEN NoLevel
    ELSE HIERARCHY_LEVELS_CONFIG[CHOOSE i \in hits : \A j \in hits : i <= j].level

parse_hierarchy_from_folder_name(folder_name_segment) ==
    IF folder_name_segment = <<>> THEN NoLevel
    ELSE first_level(hierarchy_hits(upper(folder_name_segment)))

known_dept_tags_lower == [i \in DOMAIN KNOWN_DEPARTMENT_TAGS |-> lower(KNOWN_DEPARTMENT_TAGS[i])]
role_folder_keys_lower ==
    [i \in DOMAIN ROLE_SPECIFIC_FOLDER_TAGS |-> lower(ROLE_SPECIFIC_FOLDER_TAGS[i].key)]

DefaultMetadata ==
    [department_tag |-> DEFAULT_DEPARTMENT_TAG,
     project_tag |-> DEFAULT_PROJECT_TAG,
     hierarchy_level_required |-> DEFAULT_HIERARCHY_LEVEL,
     role_tag_required |-> DEFAULT_ROLE_TAG]

\* KNOWN_DEPARTMENT_TAGS[known_dept_tags_lower.index(part_lower)]
department_of(part_lower) ==
    KNOWN_DEPARTMENT_TAGS[CHOOSE k \in DOMAIN known_dept_tags_lower :
        /\ known_dept_tags_lower[k] = part_lower
        /\ \A j \in DOMAIN known_dept_tags_lower :
              known_dept_tags_lower[j] = part_lower => k <= j]

\* role_folder_tags_lower[part_lower]
role_of(part_lower) ==
    ROLE_SPECIFIC_FOLDER_TAGS[CHOOSE k \in DOMAIN role_folder_keys_lower :
        /\ role_folder_keys_lower[k] = part_lower
        /\ \A j \in DOMAIN role_folder_keys_lower :
              role_folder_keys_lower[j] = part_lower => j <= k].value

\* the body of  for part in parts  (lines 86-113) for one part
classify(part, part_lower, parsed_hierarchy, metadata, project_candidates) ==
    IF /\ metadata.department_tag = DEFAULT_DEPARTMENT_TAG
       /\ part_lower \in Range(known_dept_tags_lower)
    THEN [metadata |-> [metadata EXCEPT !.department_tag = department_of(part_lower)],
          project_candidates |-> project_candidates]
    ELSE IF /\ metadata.role_tag_required = DEFAULT_ROLE_TAG
            /\ part_lower \in Range(role_folder_keys_lower)
    THEN [metadata |-> [metadata EXCEPT !.role_tag_required = role_of(part_lower)],
          project_candidates |-> project_candidates]
    ELSE [metadata |->
            IF /\ parsed_hierarchy # NoLevel
               /\ \/ metadata.hierarchy_level_required = DEFAULT_HIERARCHY_LEVEL
                  \/ parsed_hierarchy > metadata.hierarchy_level_required
            THEN [metadata EXCEPT !.hierarchy_level_required = parsed_hierarchy]
            ELSE metadata,
          project_candidates |->
            IF /\ part_lower \notin GenericFolders
               /\ Len(part) > 2
               /\ ~(\/ part_lower \in Range(known_dept_tags_lower)
                    \/ part_lower \in Range(role_folder_keys_lower)
                    \/ parsed_hierarchy # NoLevel)
            THEN Append(project_candidates, part)
            ELSE project_candidates]

classify_part(part, metadata, project_candidates) ==
    classify(part, lower(part), parse_hierarchy_from_folder_name(part), metadata,
             project_candidates)

\* for part in parts: the metadata and the project candidates after the loop
RECURSIVE scan_parts(_, _, _)
scan_parts(parts, i, acc) ==
    IF i > Len(parts) THEN acc
    ELSE scan_parts(parts, i + 1,
                    classify_part(parts[i], acc.metadata, acc.project_candidates))

\* lines 119-125: the first project candidate becomes the project tag
assign_project(scanned) ==
    IF /\ scanned.project_candidates # <<>>
       /\ scanned.metadata.project_tag = DEFAULT_PROJECT_TAG
    THEN [scanned.metadata EXCEPT !.project_tag = scanned.project_candidates[1]]
    ELSE scanned.metadata

\* lines 128-129: a department is not also the project
separate_project(metadata) ==
    IF /\ metadata.department_tag # DEFAULT_DEPARTMENT_TAG
       /\ metadata.department_tag = metadata.project_tag
    THEN [metadata EXCEPT !.project_tag = DEFAULT_PROJECT_TAG]
    ELSE metadata

\* relative_path is the sequence of its path components, the file name last
extract_metadata_from_path(relative_path) ==
    separate_project(assign_project(
        scan_parts(SubSeq(relative_path, 1, Len(relative_path) - 1), 1,
                   [metadata |-> DefaultMetadata, project_candidates |-> <<>>])))

(***************************************************************************)
(* Documents of the store                                                  *)
(***************************************************************************)
a_txt == <<"a",".","t","x","t">>
Alpha_1 == <<"A","l","p","h","a","-","1">>
lead_docs == <<"l","e","a","d","_","d","o","c","s">>

DocA == <<IT, a_txt>>                   \* IT/a.txt
DocB == <<Alpha_1, lead_docs, a_txt>>   \* Alpha-1/lead_docs/a.txt
DocKeys == {DocA, DocB}

\* number of chunks text_splitter.split_documents yields for the content a document
\* has at a modification time: IT/a.txt is always one chunk long, Alpha-1/lead_docs/a.txt
\* is created empty (no chunk) and is two chunks long once it has been written
NumChunks(key, mtime) == IF key = DocA THEN 1 ELSE IF mtime = 1 THEN 0 ELSE 2

\* a {relative_path: mtime} dict; 0 stands for "key not in the dict"
EmptyState == [k \in DocKeys |-> 0]
StateKeys(state) == {k \in DocKeys : state[k] # 0}

NoFile == [kind |-> "absent", state |-> EmptyState]
CorruptFile == [kind |-> "corrupt", state |-> EmptyState]
ValidFile(state) == [kind |-> "valid", state |-> state]

\* bookkeeping of one run: what it met and what it did
NoRun ==
    [failed |-> FALSE,          \* some step of the run failed
     scan_failed |-> FALSE,     \* the store could not be reached by the scan
     scan_empty |-> FALSE,      \* the scan returned no document
     start_file |-> NoFile,     \* SYNC_STATE_FILE when the run started
     empty_index |-> FALSE,     \* the index held no entity when the run started
     after_commit |-> FALSE,    \* started right after a run that saved the state
     after_clean_run |-> FALSE, \* ... and in which no step failed
     auto_reset |-> FALSE,      \* the auto-reset removed SYNC_STATE_FILE
     upsert_issued |-> {},      \* keys whose chunks were handed to add_texts
     file_before_save |-> NoFile,   \* SYNC_STATE_FILE when save_sync_state began
     save_failed |-> FALSE,     \* save_sync_state raised IOError
     delete_issued |-> {},      \* keys named in a delete call on the index
     deleted |-> {},            \* keys whose entities a delete call removed
     failed_docs |-> {},        \* documents whose load or upsert failed
     wrote |-> FALSE]           \* save_sync_state replaced the file

(***************************************************************************)
(* Chunk metadata (load_and_split_document, lines 166-173)                 *)
(***************************************************************************)
\* metadata a loader can attach to a chunk: TextLoader and PyPDFLoader set "source"
\* to the path they were given, PyPDFLoader sets "page", a loader can carry values
\* that are not of a simple type ("languages", a list) and keys of any name
DOCS_FOLDER == <<"s","a","m","p","l","e","_","d","o","c","s">>
loader_value(key) ==
    CASE key = "source" -> [simple |-> TRUE, val |-> <<DOCS_FOLDER, a_txt>>]
      [] key = "chunk_index" -> [simple |-> TRUE, val |-> 7]
      [] key = "department_tag" -> [simple |-> TRUE, val |-> LEGAL]
      [] key = "page" -> [simple |-> TRUE, val |-> 3]
      [] key = "languages" -> [simple |-> FALSE, val |-> <<"e","n","g">>]
LoaderKeys == {"source", "chunk_index", "department_tag", "page", "languages"}
LoaderMetadata == {[key \in keys |-> loader_value(key)] : keys \in SUBSET LoaderKeys}

\* {**a, **b}: the entries of b, and those of a under the other keys
dict_update(a, b) == b @@ a

\* the entries of a loader's metadata that are of a simple type
simple_entries(metadata) ==
    [key \in {k \in DOMAIN metadata : metadata[k].simple} |-> metadata[key].val]

\* chunk_metadata with the loader's entries written over the ones already set
chunk_metadata_loader_wins(relative_path, i, loader_metadata) ==
    dict_update(dict_update(("source" :> relative_path) @@ ("chunk_index" :> i),
                            extract_metadata_from_path(relative_path)),
                simple_entries(loader_metadata))

\* lines 168-173: {"source": relative_path, "chunk_index": i, **path_metadata}, then
\* every loader entry of a simple type whose key is not in chunk_metadata yet
chunk_metadata(relative_path, i, loader_metadata) ==
    LET base == dict_update(("source" :> relative_path) @@ ("chunk_index" :> i),
                            extract_metadata_from_path(relative_path))
        simple == simple_entries(loader_metadata)
    IN dict_update(base, [key \in DOMAIN simple \ DOMAIN base |-> simple[key]])

(***************************************************************************)
(* Index operations                                                        *)
(***************************************************************************)
\* load_and_split_document giving path_metadata to the first chunk only
load_and_split_document_first_chunk(relative_path, mtime) ==
    LET path_metadata == extract_metadata_from_path(relative_path)
    IN {[source |-> relative_path, chunk_index |-> i, version |-> mtime,
         department_tag |-> IF i = 0 THEN path_metadata.department_tag
                            ELSE DEFAULT_DEPARTMENT_TAG,
         project_tag |-> IF i = 0 THEN path_metadata.project_tag ELSE DEFAULT_PROJECT_TAG,
         hierarchy_level_required |-> path_metadata.hierarchy_level_required,
         role_tag_required |-> IF i = 0 THEN path_metadata.role_tag_required
                               ELSE DEFAULT_ROLE_TAG] :
            i \in 0..(NumChunks(relative_path, mtime) - 1)}

\* load_and_split_document: chunk_metadata of the chunks of one document; version is
\* the modification time of the content the chunk was cut from (not a stored field)
load_and_split_document(relative_path, mtime) ==
    LET path_metadata == extract_metadata_from_path(relative_path)
    IN {[source |-> relative_path, chunk_index |-> i, version |-> mtime,
         department_tag |-> path_metadata.department_tag,
         project_tag |-> path_metadata.project_tag,
         hierarchy_level_required |-> path_metadata.hierarchy_level_required,
         role_tag_required |-> path_metadata.role_tag_required] :
            i \in 0..(NumChunks(relative_path, mtime) - 1)}

\* a delete that matches the file name of the source instead of the whole key
delete_by_source_file_name(idx, sources) ==
    [e \in {x \in DOMAIN idx :
                \A k \in sources : x.source[Len(x.source)] # k[Len(k)]} |-> idx[e]]

\* collection.delete('source IN [...]') / collection.delete('source == "..."')
delete_by_source(idx, sources) ==
    [e \in {x \in DOMAIN idx : x.source \notin sources} |-> idx[e]]

\* vector_store_lc.add_texts: every chunk becomes a new entity (auto_id=True)
add_texts(idx, chunks) == idx (+) SetToBag(chunks)

\* number of entities stored for one (source, chunk_index)
RECURSIVE SumCopies(_, _)
SumCopies(idx, entities) ==
    IF entities = {} THEN 0
    ELSE LET e == CHOOSE x \in entities : TRUE
         IN idx[e] + SumCopies(idx, entities \ {e})
Copies(idx, source, chunk_index) ==
    SumCopies(idx, {e \in DOMAIN idx : e.source = source /\ e.chunk_index = chunk_index})

\* milvus_collection_direct.num_entities
num_entities(idx) == BagCardinality(idx)

(***************************************************************************)
(* The steps of synchronize_documents                                      *)
(***************************************************************************)
\* scan_docs_folder: os.walk yields nothing for a folder it cannot list
scan_docs_folder == IF storeUp THEN store ELSE EmptyState

\* load_sync_state: {} when the file is missing or cannot be parsed
load_sync_state(file) == IF file.kind = "valid" THEN file.state ELSE EmptyState

\* process_deletions: deleted_files_paths
deleted_files_paths(old_state, new_state) == StateKeys(old_state) \ StateKeys(new_state)

\* find_new_or_updated_files with old_state[rel_path] <= new_state[rel_path]
find_new_or_updated_files_lte(old_state, new_state) ==
    {rel_path \in StateKeys(new_state) :
        rel_path \notin StateKeys(old_state) \/ old_state[rel_path] <= new_state[rel_path]}

find_new_or_updated_files(old_state, new_state) ==
    {rel_path \in StateKeys(new_state) :
        rel_path \notin StateKeys(old_state) \/ old_state[rel_path] < new_state[rel_path]}

\* the locals of a run that is not in progress
NoSecondRun ==
    [pc |-> "idle", current_docs_state |-> EmptyState, last_sync_state |-> EmptyState,
     started |-> 0]

SyncInit ==
    /\ store = EmptyState
    /\ storeUp = TRUE
    /\ index = EmptyBag
    /\ syncFile = NoFile
    /\ pc = "idle"
    /\ current_docs_state = EmptyState
    /\ last_sync_state = EmptyState
    /\ run = NoRun
    /\ second = NoSecondRun

Resting == pc \in {"idle", "done"}

\* the run has returned: its locals are gone
Forget ==
    /\ pc' = "idle"
    /\ current_docs_state' = EmptyState
    /\ last_sync_state' = EmptyState
    /\ run' = NoRun

\* ---- the environment, between runs ----
\* a document is created, or replaced by content with another modification time
WriteDocument ==
    /\ Resting
    /\ storeUp
    /\ \E k \in DocKeys, m \in 1..MaxMtime :
        /\ store[k] # m
        /\ store' = [store EXCEPT ![k] = m]
    /\ Forget
    /\ UNCHANGED <<storeUp, index, syncFile>>
    /\ UNCHANGED fvars
    /\ UNCHANGED nvars
    /\ UNCHANGED cvars
    /\ UNCHANGED second

RemoveDocument ==
    /\ Resting
    /\ storeUp
    /\ \E k \in StateKeys(store) : store' = [store EXCEPT ![k] = 0]
    /\ Forget
    /\ UNCHANGED <<storeUp, index, syncFile>>
    /\ UNCHANGED fvars
    /\ UNCHANGED nvars
    /\ UNCHANGED cvars
    /\ UNCHANGED second

\* DOCS_FOLDER becomes unreachable (unmounted, renamed) or reachable again
StoreOutage ==
    /\ Resting
    /\ storeUp' = ~storeUp
    /\ Forget
    /\ UNCHANGED <<store, index, syncFile>>
    /\ UNCHANGED fvars
    /\ UNCHANGED nvars
    /\ UNCHANGED cvars
    /\ UNCHANGED second

\* utility.drop_collection: the collection is recreated empty by the next run
DropCollection ==
    /\ Resting
    /\ index # EmptyBag
    /\ index' = EmptyBag
    /\ Forget
    /\ UNCHANGED <<store, storeUp, syncFile>>
    /\ UNCHANGED fvars
    /\ UNCHANGED nvars
    /\ UNCHANGED cvars
    /\ UNCHANGED second

\* ---- synchronize_documents, lines 220-254: set-up, auto-reset, scan, load ----
StartRun ==
    /\ Resting
    /\ \E count_fails \in BOOLEAN, unlink_fails \in BOOLEAN :
        LET n == IF count_fails THEN 0 ELSE num_entities(index)
            reset == n = 0 /\ syncFile.kind # "absent"
            file1 == IF reset /\ ~unlink_fails THEN NoFile ELSE syncFile
            scanned == scan_docs_folder
        IN /\ unlink_fails => reset
           /\ syncFile' = file1
           /\ current_docs_state' = scanned
           /\ last_sync_state' = load_sync_state(file1)
           /\ run' = [NoRun EXCEPT
                        !.failed = count_fails \/ unlink_fails \/ ~storeUp
                                       \/ file1.kind = "corrupt",
                        !.scan_failed = ~storeUp,
                        !.scan_empty = StateKeys(scanned) = {},
                        !.start_file = syncFile,
                        !.empty_index = num_entities(index) = 0,
                        !.after_commit = pc = "done" /\ run.wrote,
                        !.after_clean_run = pc = "done" /\ run.wrote /\ ~run.failed,
                        !.auto_reset = reset /\ ~unlink_fails]
    /\ pc' = "deletions"
    /\ UNCHANGED <<store, storeUp, index>>
    /\ UNCHANGED fvars
    /\ UNCHANGED nvars
    /\ UNCHANGED cvars
    /\ UNCHANGED second

\* ---- process_deletions ----
ProcessDeletions ==
    /\ pc = "deletions"
    /\ LET gone == deleted_files_paths(last_sync_state, current_docs_state)
       IN \/ /\ index' = delete_by_source(index, gone)
             /\ run' = [run EXCEPT !.deleted = @ \cup gone, !.delete_issued = @ \cup gone]
          \/ /\ gone # {}       \* collection.delete raises: logged, the run goes on
             /\ index' = index
             /\ run' = [run EXCEPT !.failed = TRUE, !.delete_issued = @ \cup gone]
    /\ pc' = "additions"
    /\ UNCHANGED <<store, storeUp, syncFile, current_docs_state, last_sync_state>>
    /\ UNCHANGED fvars
    /\ UNCHANGED nvars
    /\ UNCHANGED cvars
    /\ UNCHANGED second

\* ---- find_new_or_updated_files and process_additions_or_updates ----
ProcessAdditions ==
    /\ pc = "additions"
    /\ LET files == find_new_or_updated_files(last_sync_state, current_docs_state)
       IN \E delete_fails \in SUBSET files, load_fails \in SUBSET files, add_fails \in BOOLEAN :
            LET cleared == delete_by_source(index, files \ delete_fails)
                chunks == UNION {load_and_split_document(k, store[k]) :
                                    k \in files \ load_fails}
                added == add_texts(cleared, chunks)
            IN /\ add_fails => chunks # {}
               /\ \A e \in DOMAIN added : Copies(added, e.source, e.chunk_index) <= MaxCopies
               /\ index' = IF add_fails THEN cleared ELSE added
               /\ run' = [run EXCEPT
                            !.failed = @ \/ delete_fails # {} \/ load_fails # {} \/ add_fails,
                            !.delete_issued = @ \cup files,
                            !.upsert_issued =
                                {k \in files \ load_fails : chunks # {} /\ NumChunks(k, store[k]) > 0},
                            !.deleted = @ \cup (files \ delete_fails),
                            !.failed_docs = load_fails \cup
                                (IF add_fails THEN {k \in files \ load_fails : NumChunks(k, store[k]) > 0}
                                 ELSE {})]
    /\ pc' = "save"
    /\ UNCHANGED <<store, storeUp, syncFile, current_docs_state, last_sync_state>>
    /\ UNCHANGED fvars
    /\ UNCHANGED nvars
    /\ UNCHANGED cvars
    /\ UNCHANGED second

\* ---- save_sync_state(current_docs_state) ----
SaveSyncState ==
    /\ pc = "save"
    /\ \/ /\ syncFile' = ValidFile(current_docs_state)
          /\ run' = [run EXCEPT !.wrote = TRUE, !.file_before_save = syncFile]
       \/ /\ syncFile' = syncFile          \* open(..., 'w') raises IOError: logged
          /\ run' = [run EXCEPT !.failed = TRUE, !.save_failed = TRUE,
                                !.file_before_save = syncFile]
       \/ /\ syncFile' = CorruptFile       \* the write breaks off: the file is truncated
          /\ run' = [run EXCEPT !.failed = TRUE, !.save_failed = TRUE,
                                !.file_before_save = syncFile]
    /\ pc' = "done"
    /\ UNCHANGED <<store, storeUp, index, current_docs_state, last_sync_state>>
    /\ UNCHANGED fvars
    /\ UNCHANGED nvars
    /\ UNCHANGED cvars
    /\ UNCHANGED second

\* the outer except saving the scan before it returns
AbortRun_saves ==
    /\ pc \in {"deletions", "additions", "save"}
    /\ run' = [run EXCEPT !.failed = TRUE]
    /\ pc' = "done"
    /\ syncFile' = ValidFile(current_docs_state)
    /\ UNCHANGED <<store, storeUp, index, current_docs_state, last_sync_state>>
    /\ UNCHANGED fvars
    /\ UNCHANGED nvars
    /\ UNCHANGED cvars
    /\ UNCHANGED second

\* ---- an exception reaches the outer except of synchronize_documents ----
AbortRun ==
    /\ pc \in {"deletions", "additions", "save"}
    /\ run' = [run EXCEPT !.failed = TRUE]
    /\ pc' = "done"
    /\ UNCHANGED <<store, storeUp, index, syncFile, current_docs_state, last_sync_state>>
    /\ UNCHANGED fvars
    /\ UNCHANGED nvars
    /\ UNCHANGED cvars
    /\ UNCHANGED second

(***************************************************************************)
(* Two triggers: POST /admin/sync_documents adds synchronize_documents as  *)
(* a background task each time it is called, so a second run can start     *)
(* while the first is in progress. The steps are those of the first run.   *)
(***************************************************************************)
RunActive == pc \in {"deletions", "additions", "save"}
SecondActive == second.pc # "idle"

\* the second trigger arrives while the first run is in progress:
\* synchronize_documents lines 220-254 for the second run
SecondStartRun ==
    /\ RunActive
    /\ second.pc = "idle"
    /\ second.started < MaxSecondRuns
    /\ \E count_fails \in BOOLEAN, unlink_fails \in BOOLEAN :
        LET n == IF count_fails THEN 0 ELSE num_entities(index)
            reset == n = 0 /\ syncFile.kind # "absent"
            file1 == IF reset /\ ~unlink_fails THEN NoFile ELSE syncFile
        IN /\ unlink_fails => reset
           /\ syncFile' = file1
           /\ second' = [pc |-> "deletions",
                         current_docs_state |-> scan_docs_folder,
                         last_sync_state |-> load_sync_state(file1),
                         started |-> second.started + 1]
    /\ UNCHANGED <<store, storeUp, index, pc, current_docs_state, last_sync_state, run>>
    /\ UNCHANGED fvars
    /\ UNCHANGED nvars
    /\ UNCHANGED cvars

\* process_deletions of the second run
SecondProcessDeletions ==
    /\ second.pc = "deletions"
    /\ LET gone == deleted_files_paths(second.last_sync_state, second.current_docs_state)
       IN \/ index' = delete_by_source(index, gone)
          \/ gone # {} /\ index' = index
    /\ second' = [second EXCEPT !.pc = "additions"]
    /\ UNCHANGED <<store, storeUp, syncFile, pc, current_docs_state, last_sync_state, run>>
    /\ UNCHANGED fvars
    /\ UNCHANGED nvars
    /\ UNCHANGED cvars

\* find_new_or_updated_files and process_additions_or_updates of the second run
SecondProcessAdditions ==
    /\ second.pc = "additions"
    /\ LET files == find_new_or_updated_files(second.last_sync_state,
                                              second.current_docs_state)
       IN \E delete_fails \in SUBSET files, load_fails \in SUBSET files, add_fails \in BOOLEAN :
            LET cleared == delete_by_source(index, files \ delete_fails)
                chunks == UNION {load_and_split_document(k, store[k]) :
                                    k \in files \ load_fails}
                added == add_texts(cleared, chunks)
            IN /\ add_fails => chunks # {}
               /\ \A e \in DOMAIN added : Copies(added, e.source, e.chunk_index) <= MaxCopies
               /\ index' = IF add_fails THEN cleared ELSE added
    /\ second' = [second EXCEPT !.pc = "save"]
    /\ UNCHANGED <<store, storeUp, syncFile, pc, current_docs_state, last_sync_state, run>>
    /\ UNCHANGED fvars
    /\ UNCHANGED nvars
    /\ UNCHANGED cvars

\* save_sync_state of the second run, which then returns
SecondSaveSyncState ==
    /\ second.pc = "save"
    /\ \/ syncFile' = ValidFile(second.current_docs_state)
       \/ syncFile' = syncFile
       \/ syncFile' = CorruptFile
    /\ second' = [NoSecondRun EXCEPT !.started = second.started]
    /\ UNCHANGED <<store, storeUp, index, pc, current_docs_state, last_sync_state, run>>
    /\ UNCHANGED fvars
    /\ UNCHANGED nvars
    /\ UNCHANGED cvars

(***************************************************************************)
(* One call of load_and_split_document on a document of the store          *)
(***************************************************************************)
root_a_txt == <<a_txt>>                 \* a.txt, directly in DOCS_FOLDER
DocHRIT == <<HR, IT, a_txt>>            \* HR/IT/a.txt
PathInputs == {DocA, DocB, root_a_txt, DocHRIT}

ChunkingIdle ==
    /\ doc_path = <<>>
    /\ split_docs_lc = <<>>
    /\ processed_chunks = <<>>
    /\ cstatus = "idle"

\* the loader and the splitter have returned the chunks of the document
ChunkingInit ==
    /\ doc_path \in PathInputs
    /\ split_docs_lc \in ListsOf(LoaderMetadata, MaxChunks)
    /\ processed_chunks = <<>>
    /\ cstatus = "loaded"

\* for i, doc_chunk_lc in enumerate(split_docs_lc): processed_chunks.append(...)
LoadAndSplit ==
    /\ cstatus = "loaded"
    /\ processed_chunks' =
            [n \in DOMAIN split_docs_lc |-> chunk_metadata(doc_path, n - 1, split_docs_lc[n])]
    /\ cstatus' = "split"
    /\ UNCHANGED <<doc_path, split_docs_lc>>
    /\ UNCHANGED fvars
    /\ UNCHANGED svars
    /\ UNCHANGED nvars

(***************************************************************************)
(* One call of the tag normalizer, and a second call on what it returned   *)
(***************************************************************************)
TagAlphabet == {"a", "z", "B", "7", "-", " ", "_"}
Project_Alpha_2 == <<"P","r","o","j","e","c","t","-","A","l","p","h","a"," ","2">>
PROJECTALPHA2 == <<"P","R","O","J","E","C","T","A","L","P","H","A","2">>

\* strings, and None for a value that is no str
TagInputs == ListsOf(TagAlphabet, MaxTagLen) \cup {Project_Alpha_2, NoneValue}

NormalizerIdle ==
    /\ raw_tag = NoneValue
    /\ nstatus = "idle"
    /\ normalized = <<>>
    /\ renormalized = <<>>

NormalizerInit ==
    /\ raw_tag \in TagInputs
    /\ nstatus = "input"
    /\ normalized = <<>>
    /\ renormalized = <<>>

\* sanitize_tag(tag)
Normalize ==
    /\ nstatus = "input"
    /\ normalized' = sanitize_tag(raw_tag)
    /\ nstatus' = "normalized"
    /\ UNCHANGED <<raw_tag, renormalized>>
    /\ UNCHANGED fvars
    /\ UNCHANGED svars
    /\ UNCHANGED cvars

\* sanitize_tag of the tag sanitize_tag returned
NormalizeAgain ==
    /\ nstatus = "normalized"
    /\ renormalized' = sanitize_tag(normalized)
    /\ nstatus' = "twice"
    /\ UNCHANGED <<raw_tag, normalized>>
    /\ UNCHANGED fvars
    /\ UNCHANGED svars
    /\ UNCHANGED cvars

\* no retrieval request in progress
FilterIdle ==
    /\ profile = NoneProfile
    /\ fstatus = "raised"
    /\ filter = NoFilter
    /\ retrieved = {}

NormalizerNext ==
    \/ Normalize
    \/ NormalizeAgain

\* one tag handed to the normalizer, with no request and no run in progress
NormalizerStart ==
    /\ NormalizerInit
    /\ FilterIdle
    /\ SyncInit
    /\ ChunkingIdle

\* one document handed to load_and_split_document, nothing else in progress
ChunkingStart ==
    /\ ChunkingInit
    /\ NormalizerIdle
    /\ FilterIdle
    /\ SyncInit

ChunkingNext == LoadAndSplit

ChunkingSpec == ChunkingStart /\ [][ChunkingNext]_vars

NormalizerSpec == NormalizerStart /\ [][NormalizerNext]_vars

\* the reconciler and its environment, with no retrieval request in progress
Init ==
    /\ NormalizerIdle
    /\ ChunkingIdle
    /\ SyncInit
    /\ profile = NoneProfile
    /\ fstatus = "raised"
    /\ filter = NoFilter
    /\ retrieved = {}

Next ==
    \/ WriteDocument
    \/ RemoveDocument
    \/ StoreOutage
    \/ DropCollection
    \/ StartRun
    \/ ProcessDeletions
    \/ ProcessAdditions
    \/ SaveSyncState
    \/ AbortRun

Spec == Init /\ [][Next]_vars

\* nothing has been indexed or recorded yet
FreshDeployment == index = EmptyBag /\ syncFile = NoFile /\ second.started = 0

\* the reconciler under two triggers, on documents placed before the first sync
ConcurrentNext ==
    \/ FreshDeployment /\ WriteDocument
    \/ StartRun
    \/ ProcessDeletions
    \/ ProcessAdditions
    \/ SaveSyncState
    \/ AbortRun
    \/ SecondStartRun
    \/ SecondProcessDeletions
    \/ SecondProcessAdditions
    \/ SecondSaveSyncState

ConcurrentSpec == Init /\ [][ConcurrentNext]_vars

\* one retrieval request for each profile, with no run of the reconciler
RetrievalInit ==
    /\ NormalizerIdle
    /\ ChunkingIdle
    /\ FilterInit
    /\ SyncInit

RetrievalNext ==
    \/ Compile
    \/ CompileRaises
    \/ Query

RetrievalSpec == RetrievalInit /\ [][RetrievalNext]_vars

(***************************************************************************)
(* Properties of the filter compiler (checked under RetrievalSpec)         *)
(***************************************************************************)
IsFullProfile(p) == p.type = "dict" /\ p.keys = ProfileKeys
Compiled == fstatus \in {"compiled", "queried"}

\* C1: whatever departments, projects and contextual roles a profile holds, the
\* compiled filter matches a chunk only if the chunk's hierarchy_level_required is
\* at most the profile's hierarchy level.
C1_HierarchyGate ==
    (Compiled /\ "user_hierarchy_level" \in profile.keys) =>
        \A c \in Corpus :
            (filter_matches(filter, c) \/ c \in retrieved) =>
                c.hierarchy_level_required <= profile.user_hierarchy_level

\* C1 witness: a profile with departments, projects and contextual roles was
\* served a chunk of a department with a role requirement, and the same chunk
\* one level above the profile's level was withheld.
C1_Witness ==
    /\ fstatus = "queried"
    /\ IsFullProfile(profile)
    /\ profile.departments # <<>>
    /\ profile.projects_membership # <<>>
    /\ profile.contextual_roles # <<>>
    /\ \E c \in retrieved :
        /\ c.department_tag # GENERAL
        /\ c.role_tag_required = LEAD
        /\ c.hierarchy_level_required = profile.user_hierarchy_level
        /\ c.hierarchy_level_required < MaxLevel
        /\ [c EXCEPT !.hierarchy_level_required = @ + 1] \in Corpus \ retrieved

\* the departments or projects of a profile, as canonical tags
memberships(list) == {sanitize_tag(list[i]) : i \in DOMAIN list}

\* the roles a profile holds for one context, as canonical tags
roles_held(p, context) ==
    UNION {{sanitize_tag(r) : r \in Range(p.contextual_roles[i].roles)} :
            i \in {j \in DOMAIN p.contextual_roles :
                        sanitize_tag(p.contextual_roles[j].key) = context}}

\* the grant as C2 words it
claimed_grant(p, c) ==
    /\ c.hierarchy_level_required <= p.user_hierarchy_level
    /\ \/ /\ c.department_tag = GENERAL \/ c.department_tag \in memberships(p.departments)
          /\ \/ c.role_tag_required = GENERAL
             \/ c.role_tag_required \in
                    roles_held(p, GENERAL) \cup roles_held(p, c.department_tag)
       \/ /\ c.project_tag = GENERAL \/ c.project_tag \in memberships(p.projects_membership)
          /\ \/ c.role_tag_required = GENERAL
             \/ c.role_tag_required \in
                    roles_held(p, GENERAL) \cup roles_held(p, c.project_tag)

\* C2: the compiled filter matches a chunk exactly when the hierarchy gate holds
\* and the department branch or the project branch grants it, the role being
\* GENERAL or held for context GENERAL or for the chunk's own department
\* (respectively project).
C2_ExactGrant ==
    (fstatus = "queried" /\ IsFullProfile(profile)) =>
        \A c \in Corpus : (c \in retrieved) <=> claimed_grant(profile, c)

\* C3: for an absent profile (None) or a dict with none of the profile keys the
\* compiler returns, without raising, a filter that matches no chunk.
C3_AbsentProfileMatchesNothing ==
    (profile \in {NoneProfile, EmptyDictProfile} /\ fstatus # "request") =>
        /\ fstatus # "raised"
        /\ \A c \in Corpus : ~filter_matches(filter, c)
        /\ retrieved = {}

\* the lists that spell the tags of a list differently (other casing, punctuation)
respell_list(list, inputs) ==
    {l \in [DOMAIN list -> inputs] :
        \A i \in DOMAIN list : sanitize_tag(l[i]) = sanitize_tag(list[i])}

respell_roles(dict) ==
    {d \in [DOMAIN dict -> ContextEntries] :
        \A i \in DOMAIN dict :
            /\ sanitize_tag(d[i].key) = sanitize_tag(dict[i].key)
            /\ d[i].roles \in respell_list(dict[i].roles, RoleInputs)}

\* the profiles that differ from p only in the spelling of their tags
Respellings(p) ==
    [type : {"dict"}, keys : {ProfileKeys},
     user_hierarchy_level : {p.user_hierarchy_level},
     departments : respell_list(p.departments, DeptInputs),
     projects_membership : respell_list(p.projects_membership, ProjInputs),
     contextual_roles : respell_roles(p.contextual_roles) \cap ContextDicts]

\* C10: two profiles that differ only in the casing or punctuation of their
\* department, project, context or role tags are served exactly the same chunks.
C10_SpellingInsensitive ==
    (fstatus = "queried" /\ IsFullProfile(profile)) =>
        \A q \in Respellings(profile) :
            {c \in Corpus : filter_matches(build_filter_expression(q), c)} = retrieved

(***************************************************************************)
(* Properties of the reconciler (checked under Spec)                       *)
(***************************************************************************)
PriorStateNonEmpty ==
    run.start_file.kind = "valid" /\ StateKeys(run.start_file.state) # {}

\* C4: a run whose scan returns no document while the prior SyncState is
\* non-empty issues no index deletion and writes no SyncState.
C4_EmptyScanAborts ==
    (pc = "done" /\ run.scan_empty /\ PriorStateNonEmpty) =>
        /\ run.delete_issued = {}
        /\ ~run.wrote

\* C5: a document whose load, split, embed or upsert failed in a run is absent
\* from the SyncState that run commits.
C5_FailedDocumentNotCommitted ==
    (pc = "done" /\ run.wrote) =>
        \A k \in run.failed_docs : syncFile.state[k] = 0

\* C6: a run whose scan could not reach the store issues no index deletion and
\* leaves the persisted SyncState as it was.
C6_ScanFailureAborts ==
    (pc = "done" /\ run.scan_failed) =>
        /\ run.delete_issued = {}
        /\ ~run.wrote
        /\ syncFile = run.start_file

\* C7: between runs the index never holds two entities with the same
\* (source, chunk_index).
C7_NoDuplicateChunks ==
    Resting => \A e \in DOMAIN index : Copies(index, e.source, e.chunk_index) = 1

NoOrphans ==
    \A e \in DOMAIN index : syncFile.kind = "valid" /\ syncFile.state[e.source] # 0

CurrentVersionsIndexed ==
    \A k \in StateKeys(current_docs_state) :
        \A chunk \in load_and_split_document(k, current_docs_state[k]) :
            chunk \in DOMAIN index

\* C8: after a run in which nothing failed, no entity of the index has a source
\* that the committed SyncState lacks, and every chunk of the current version of
\* every scanned document is in the index.
C8_ConsistentAfterCleanRun ==
    (pc = "done" /\ ~run.failed) => (NoOrphans /\ CurrentVersionsIndexed)

\* C9: every tag stored on an entity of the index, and every tag in a compiled
\* filter, is canonical (uppercase ASCII letters and digits only).
C9_CanonicalTags ==
    /\ \A e \in DOMAIN index :
        /\ IsCanonical(e.department_tag)
        /\ IsCanonical(e.project_tag)
        /\ IsCanonical(e.role_tag_required)
    /\ Compiled =>
        \A tag \in Range(filter.department_in) \cup Range(filter.project_in)
                    \cup filter.dept_role_in \cup filter.proj_role_in :
            IsCanonical(tag)

(***************************************************************************)
(* Scenarios of the filter compiler (checked under RetrievalSpec)          *)
(***************************************************************************)
NoGrants(p) ==
    /\ IsFullProfile(p)
    /\ p.departments = <<>>
    /\ p.projects_membership = <<>>
    /\ p.contextual_roles = <<>>

AllDefaultChunk(role) ==
    [department_tag |-> DEFAULT_DEPARTMENT_TAG, project_tag |-> DEFAULT_PROJECT_TAG,
     hierarchy_level_required |-> DEFAULT_HIERARCHY_LEVEL, role_tag_required |-> role]

DepartmentChunk(p, c, role) ==
    /\ c.department_tag # DEFAULT_DEPARTMENT_TAG
    /\ c.department_tag \in memberships(p.departments)
    /\ c.project_tag = DEFAULT_PROJECT_TAG
    /\ c.role_tag_required = role
    /\ c.hierarchy_level_required <= p.user_hierarchy_level

ChunkA(role) ==
    [department_tag |-> IT, project_tag |-> DEFAULT_PROJECT_TAG,
     hierarchy_level_required |-> 1, role_tag_required |-> role]
ChunkB(project) ==
    [department_tag |-> DEFAULT_DEPARTMENT_TAG, project_tag |-> project,
     hierarchy_level_required |-> 0, role_tag_required |-> LEAD]
ChunkC == ChunkB(PROJECT_BETA)

department_branch(f, c) ==
    c.department_tag \in Range(f.department_in) /\ c.role_tag_required \in f.dept_role_in
project_branch(f, c) ==
    c.project_tag \in Range(f.project_in) /\ c.role_tag_required \in f.proj_role_in

\* C14: a chunk of department D (project J) that requires a role R other than the
\* always-granted one is matched through the department (project) branch only if
\* the profile holds R for context GENERAL or for D (J) itself.
C14_RolePerContext ==
    (Compiled /\ IsFullProfile(profile)) =>
        \A c \in Corpus :
            c.role_tag_required \notin {GENERAL, DEFAULT_ROLE_TAG} =>
                /\ department_branch(filter, c) =>
                    c.role_tag_required \in
                        roles_held(profile, GENERAL) \cup roles_held(profile, c.department_tag)
                /\ project_branch(filter, c) =>
                    c.role_tag_required \in
                        roles_held(profile, GENERAL) \cup roles_held(profile, c.project_tag)

(***************************************************************************)
(* Properties of the tag normalizer (checked under NormalizerSpec)         *)
(***************************************************************************)
\* the positions of a string that hold an ASCII letter or digit
KeptPositions(t) == {i \in DOMAIN t : t[i] \in LowerSet \cup UpperSet \cup DigitChars}

\* r is t with the other positions removed and the kept characters uppercased
IsStrippedUppercased(r, t) ==
    /\ Len(r) = Cardinality(KeptPositions(t))
    /\ \A i \in KeptPositions(t) :
        LET rank == Cardinality({j \in KeptPositions(t) : j <= i})
        IN /\ t[i] \in LowerSet =>
                \E k \in DOMAIN LowerChars : LowerChars[k] = t[i] /\ r[rank] = UpperChars[k]
           /\ t[i] \notin LowerSet => r[rank] = t[i]

\* C15: sanitize_tag returns its input with every character that is not an ASCII
\* letter or digit removed and the rest uppercased ("Project-Alpha 2" gives
\* "PROJECTALPHA2"), and the empty string for an input that is no string.
C15_NormalizeDefinition ==
    nstatus \in {"normalized", "twice"} =>
        /\ raw_tag # NoneValue => IsStrippedUppercased(normalized, raw_tag)
        /\ raw_tag = NoneValue => normalized = <<>>
        /\ raw_tag = Project_Alpha_2 => normalized = PROJECTALPHA2

\* C15 witness: a string with a lowercase letter, an uppercase letter and a
\* character that is neither letter nor digit has been normalized to two letters.
C15_Witness ==
    /\ nstatus = "normalized"
    /\ raw_tag # NoneValue
    /\ Len(raw_tag) = 3
    /\ \E i, j, k \in DOMAIN raw_tag :
        raw_tag[i] \in LowerSet /\ raw_tag[j] \in UpperSet /\ raw_tag[k] \in {"-", " ", "_"}
    /\ Len(normalized) = 2

\* C16: sanitize_tag is idempotent: sanitize_tag(sanitize_tag(t)) = sanitize_tag(t).
C16_NormalizeIdempotent ==
    nstatus = "twice" => renormalized = normalized

\* C16 witness: the second call was made on a result that differs from the input
\* and is not empty.
C16_Witness ==
    /\ nstatus = "twice"
    /\ normalized # raw_tag
    /\ normalized # <<>>
    /\ renormalized = normalized

(***************************************************************************)
(* Runs in a row, the commit, and the tags of indexed chunks (under Spec)  *)
(***************************************************************************)
RunInProgressOrDone == pc \in {"deletions", "additions", "save", "done"}

\* the diff the run works from
DiffEmpty ==
    /\ deleted_files_paths(last_sync_state, current_docs_state) = {}
    /\ find_new_or_updated_files(last_sync_state, current_docs_state) = {}

NoIndexOperation == run.delete_issued = {} /\ run.upsert_issued = {}

C18_AtomicCommit ==
    pc = "done" =>
        /\ run.wrote => syncFile = ValidFile(current_docs_state)
        /\ run.save_failed => syncFile = run.file_before_save

TagsOf(e) ==
    [department_tag |-> e.department_tag, project_tag |-> e.project_tag,
     hierarchy_level_required |-> e.hierarchy_level_required,
     role_tag_required |-> e.role_tag_required]

Committed(k) == syncFile.kind = "valid" /\ syncFile.state[k] # 0

\* C20: whatever failed in any run, every entity of the index whose document is
\* recorded in the committed SyncState carries the access tags that document's path
\* resolves to.
C20_IndexedTagsCurrent ==
    \A e \in DOMAIN index :
        Committed(e.source) => TagsOf(e) = TagsOf(extract_metadata_from_path(e.source))

\* C20 witness: after a run in which a step failed, the index holds a chunk twice,
\* of a committed document whose path gives it tags other than the defaults.
C20_Witness ==
    /\ pc = "done"
    /\ run.failed
    /\ Committed(DocB)
    /\ Copies(index, DocB, 1) = 2
    /\ \E e \in DOMAIN index :
        e.source = DocB /\ e.chunk_index = 1 /\ e.role_tag_required = LEAD

(***************************************************************************)
(* Two triggers close together (checked under ConcurrentSpec)              *)
(***************************************************************************)
\* C19: at most one run of the reconciler is in progress at any time: no two runs
\* work from the same SyncState on the same index at once.
C19_SingleRunAtATime ==
    ~(RunActive /\ SecondActive)

(***************************************************************************)
(* Department-restricted chunks and the project branch                     *)
(***************************************************************************)
\* C26: a chunk whose department is a non-GENERAL department that is not among the
\* profile's departments, and whose project is GENERAL, is not matched by the
\* compiled filter.
C26_DepartmentRestricted ==
    (Compiled /\ IsFullProfile(profile)) =>
        \A c \in Corpus :
            (/\ c.department_tag # DEFAULT_DEPARTMENT_TAG
             /\ c.department_tag \notin memberships(profile.departments)
             /\ c.project_tag = DEFAULT_PROJECT_TAG) =>
                ~filter_matches(filter, c)

(***************************************************************************)
(* Monotonicity of the filter in the profile                               *)
(***************************************************************************)
\* the profiles that hold one entitlement more than p: one level more, one more
\* department or project, or one more entry of contextual_roles (under a new key)
one_more_entitlement(p) ==
    {[p EXCEPT !.user_hierarchy_level = @ + 1]}
    \cup {[p EXCEPT !.departments = Append(@, d)] : d \in DeptInputs}
    \cup {[p EXCEPT !.projects_membership = Append(@, j)] : j \in ProjInputs}
    \cup {[p EXCEPT !.contextual_roles = Append(@, e)] :
            e \in {x \in ContextEntries :
                    \A i \in DOMAIN p.contextual_roles : p.contextual_roles[i].key # x.key}}

\* C27: every chunk matched for the profile is still matched when the profile is
\* given one more entitlement (removing an entitlement never makes a new chunk
\* visible).
C27_MonotoneInProfile ==
    (Compiled /\ IsFullProfile(profile)) =>
        \A q \in one_more_entitlement(profile) :
            \A c \in Corpus :
                filter_matches(filter, c) => filter_matches(build_filter_expression(q), c)

(***************************************************************************)
(* The diff of a run                                                       *)
(***************************************************************************)
\* the diff as the specification defines it
diff_deleted(last, current) == StateKeys(last) \ StateKeys(current)
diff_added(last, current) == StateKeys(current) \ StateKeys(last)
diff_updated(last, current) ==
    {k \in StateKeys(last) \cap StateKeys(current) : last[k] # current[k]}

\* C22: when a run has gone through its deletions and additions, the keys it
\* removed as deleted are keys(last) minus keys(current), and the keys it processed
\* as new or updated are keys(current) minus keys(last) together with the keys in
\* both whose fingerprint differs in any way.
C22_DiffExact ==
    pc = "save" =>
        /\ run.delete_issued \ StateKeys(current_docs_state) =
                diff_deleted(last_sync_state, current_docs_state)
        /\ run.delete_issued \cap StateKeys(current_docs_state) =
                diff_added(last_sync_state, current_docs_state)
                    \cup diff_updated(last_sync_state, current_docs_state)

(***************************************************************************)
(* The deletion step                                                       *)
(***************************************************************************)
\* C23: once a run has gone through its deletions and additions, the index holds no
\* chunk of a previous version of a key that was deleted or updated: every chunk of
\* such a key that is left was cut from the content the scan saw.
C23_PreviousVersionsRemoved ==
    pc = "save" =>
        \A e \in DOMAIN index :
            e.source \in diff_deleted(last_sync_state, current_docs_state)
                            \cup diff_updated(last_sync_state, current_docs_state) =>
                e.version = current_docs_state[e.source]

(***************************************************************************)
(* The commit comes last                                                   *)
(***************************************************************************)
\* the run ended without reaching save_sync_state
StoppedBeforeCommit == pc = "done" /\ ~run.wrote /\ ~run.save_failed

Held(idx, e) == IF e \in DOMAIN idx THEN idx[e] ELSE 0

\* the sources of which the step removes an entity
sources_removed == {e.source : e \in {x \in DOMAIN index : Held(index', x) < index[x]}}

\* C28 as worded: every step of a run removes only chunks whose source is among the
\* deleted or the updated keys of the run's diff.
C28_DeletesOnlyDeletedOrUpdated ==
    [][RunActive =>
        sources_removed \subseteq
            diff_deleted(last_sync_state, current_docs_state)
                \cup diff_updated(last_sync_state, current_docs_state)]_vars

\* C28 amended: every step of a run removes only chunks whose source is among the
\* deleted, the added or the updated keys of the run's diff: the chunks of a
\* document that is unchanged between the last SyncState and the scan stay as they
\* are, also when a document of the same file name in another directory is changed.
C28_UnchangedDocumentsKept ==
    [][RunActive =>
        sources_removed \subseteq
            diff_deleted(last_sync_state, current_docs_state)
                \cup diff_added(last_sync_state, current_docs_state)
                \cup diff_updated(last_sync_state, current_docs_state)]_vars

\* C28 witness: a run removed the chunks of IT/a.txt, which had changed, and the
\* index still holds the chunks of the unchanged Alpha-1/lead_docs/a.txt.
C28_Witness ==
    /\ pc = "done"
    /\ DocA \in run.deleted
    /\ DocB \notin run.delete_issued
    /\ last_sync_state[DocB] = current_docs_state[DocB]
    /\ current_docs_state[DocB] # 0
    /\ \E e \in DOMAIN index : e.source = DocB
    /\ \E e \in DOMAIN index : e.source = DocA /\ e.version = current_docs_state[DocA]

(***************************************************************************)
(* The auto-reset                                                          *)
(***************************************************************************)
\* the run started on an empty index with a SyncState file in place
ResetDue == RunInProgressOrDone /\ run.empty_index /\ run.start_file.kind # "absent"

\* the index holds every chunk of the content the scan saw of document k
IndexedAsScanned(k) ==
    \A i \in 0..(NumChunks(k, current_docs_state[k]) - 1) :
        \E e \in DOMAIN index :
            e.source = k /\ e.chunk_index = i /\ e.version = current_docs_state[k]

\* C30: a run that starts on an empty index while a SyncState file exists diffs
\* against the empty state; it issues no deletion for a key of the discarded state
\* that the scan lacks, and once its additions are done every document of the scan
\* has been processed as added and its chunks are in the index.
C30_AutoReset ==
    ResetDue =>
        /\ last_sync_state = EmptyState
        /\ run.delete_issued \cap
                (StateKeys(run.start_file.state) \ StateKeys(current_docs_state)) = {}
        /\ pc = "save" =>
                \A k \in StateKeys(current_docs_state) :
                    k \in run.delete_issued /\ IndexedAsScanned(k)

(***************************************************************************)
(* Chunk metadata (checked under ChunkingSpec)                             *)
(***************************************************************************)
AccessTagKeys ==
    {"department_tag", "project_tag", "hierarchy_level_required", "role_tag_required"}
ReservedKeys == {"source", "chunk_index"} \cup AccessTagKeys

\* C29: every chunk returned for a document carries the document's key as source,
\* its own position as chunk_index and the four access tags resolved for the
\* document's path, whatever the loader put under those keys; the loader's entries
\* of a simple type under other keys are added; all chunks carry the same tags.
C29_ChunkMetadataFromPath ==
    cstatus = "split" =>
        \A n \in DOMAIN processed_chunks :
            /\ ReservedKeys \subseteq DOMAIN processed_chunks[n]
            /\ processed_chunks[n]["source"] = doc_path
            /\ processed_chunks[n]["chunk_index"] = n - 1
            /\ \A key \in AccessTagKeys :
                    /\ processed_chunks[n][key] = extract_metadata_from_path(doc_path)[key]
                    /\ processed_chunks[n][key] = processed_chunks[1][key]
            /\ \A key \in DOMAIN split_docs_lc[n] \ ReservedKeys :
                    split_docs_lc[n][key].simple =>
                        /\ key \in DOMAIN processed_chunks[n]
                        /\ processed_chunks[n][key] = split_docs_lc[n][key].val

\* C29 witness: a document of two chunks whose loader metadata names a source, a
\* chunk_index and a department_tag of its own, and a page, has been split.
C29_Witness ==
    /\ cstatus = "split"
    /\ doc_path = DocB
    /\ Len(processed_chunks) = 2
    /\ {"source", "chunk_index", "page"} \subseteq DOMAIN split_docs_lc[1]
    /\ {"department_tag", "languages"} \subseteq DOMAIN split_docs_lc[2]
    /\ processed_chunks[1]["page"] = 3
    /\ processed_chunks[2]["department_tag"] = DEFAULT_DEPARTMENT_TAG
    /\ processed_chunks[2]["role_tag_required"] = LEAD

(***************************************************************************)
(* Tag resolution without a manifest                                       *)
(***************************************************************************)
\* C21: a document with no manifest on its path gets all defaults; no step of the
\* program reads a manifest, so the chunks of every document carry the default tags.
C21_NoManifestAllDefaults ==
    cstatus = "split" =>
        \A n \in DOMAIN processed_chunks :
            \A key \in AccessTagKeys : processed_chunks[n][key] = DefaultMetadata[key]

====
